---- MODULE Spec2Model ----
(***************************************************************************)
(* The document converter backend (src/backend/app.py): four conversion    *)
(* routes that stage uploads in UPLOAD_FOLDER, run an adapter that writes  *)
(* into CONVERTED_FOLDER, send the result and delete the request's files,  *)
(* plus the cleanup_old_files janitor thread.                              *)
(*                                                                         *)
(* Time is discrete: one Tick is RETENTION seconds, and a file's age is    *)
(* the upper end of the interval its true age lies in: 0 when written,    *)
(* RETENTION after one tick (not yet expired), AgeCap from the second tick *)
(* on (expired).  The janitor's sleep (1800 s) and a cleanup's sleep (3 s) *)
(* are shorter than a tick: each is a step that may be taken at any later  *)
(* moment.  A janitor sweep is taken to finish within one tick.            *)
(*                                                                         *)
(* Spec is one request at a time on any route, with its cleanup thread;    *)
(* SpecSeq the two multi-file routes with up to MaxPartsSeq parts;         *)
(* SpecService the merge route with the janitor and time, FairService the  *)
(* same with every thread scheduled; SpecPair two requests at a time on   *)
(* the single-file and merge routes; SpecPure applies merge_pdfs,          *)
(* images_to_pdf and the transport's size check to arguments of their own. *)
(***************************************************************************)
EXTENDS Integers, Sequences, FiniteSets, TLC

\* ------------------------------------------------------------ constants
RETENTION == 3600
MERGE_MIN == 2
MERGE_MAX == 10
IMAGE_MAX == 20
DOCX_MIN_SIZE == 100
DOCXML_MIN_SIZE == 50
LO_MIN_SIZE == 50
MAX_FILE_SIZE == 10 * 1024 * 1024
MAX_CONTENT_LENGTH == MAX_FILE_SIZE

\* ---------------------------------------------------------------- bounds
\* parts (file_0, file_1, ...) a request carries when every kind of part
\* and engine outcome is drawn
MaxParts == 2
\* parts a request carries when the parts are all of one kind
MaxPartsSeq == 21
\* inputs of one call of merge_pdfs, pages of one input
MaxDocs == 3
MaxPages == 2
\* inputs of one call of images_to_pdf
MaxImgs == 3
\* files the directories may hold when a request is admitted
MaxBacklog == 0
\* largest id of a path of the running service
MaxId == 6

\* request slots: Spec, SpecSeq and SpecService handle requests one after
\* the other in slot 1, SpecPair handles two at a time
Requests == {1, 2}
AgeCap == RETENTION + RETENTION
NoPath == [dir |-> "none", id |-> 0, ext |-> ""]

Min(a, b) == IF a < b THEN a ELSE b

RECURSIVE SeqToSet(_)
SeqToSet(s) == IF s = <<>> THEN {} ELSE {Head(s)} \cup SeqToSet(Tail(s))

\* ------------------------------------------------------------- filenames
\* A filename is its stem and the text after its last dot; NoDot: it has no
\* dot.  The empty filename is EmptyName.
NoDot == "<nodot>"
EmptyName == [stem |-> "", ext |-> NoDot]
FName(e) == [stem |-> "a", ext |-> e]

Lower(e) == CASE e = "PDF" -> "pdf"
              [] e = "DOCX" -> "docx"
              [] e = "PNG" -> "png"
              [] OTHER -> e

ALLOWED_EXTENSIONS(file_type) ==
    CASE file_type = "pdf" -> {"pdf"}
      [] file_type = "word" -> {"doc", "docx"}
      [] file_type = "image" -> {"jpg", "jpeg", "png"}

allowed_file(filename, file_type) ==
    filename.ext # NoDot /\ Lower(filename.ext) \in ALLOWED_EXTENSIONS(file_type)

\* the category each route validates its parts against
Category(rt) == CASE rt = "pdf-to-word" -> "pdf"
                  [] rt = "word-to-pdf" -> "word"
                  [] rt = "merge-pdf" -> "pdf"
                  [] rt = "image-to-pdf" -> "image"

\* ----------------------------------------------------------- form fields
\* request.form.get('file_count', 0) before int(): absent, a number, or text
\* that int() rejects.
Absent == [kind |-> "absent", val |-> 0]
Text == [kind |-> "text", val |-> 0]
Num(n) == [kind |-> "num", val |-> n]
IntOf(field) == IF field.kind = "num" THEN field.val ELSE 0

\* ---------------------------------------------------------- file contents
Plain(sz) == [size |-> sz, zip |-> FALSE, names |-> {}, doclen |-> 0]
Docx(sz, nm, dl) == [size |-> sz, zip |-> TRUE, names |-> nm, doclen |-> dl]
NoFile == [size |-> -1, zip |-> FALSE, names |-> {}, doclen |-> 0]

VARIABLES
    fs,               \* path -> [age, content]: the files of both directories
    pc,               \* request slot -> position of its handler
    route,            \* request slot -> route of the request
    file_count,       \* request slot -> the 'file_count' form field
    nfiles,           \* request slot -> number of parts the loop goes through
    idx,              \* request slot -> loop index i
    uploaded_files,   \* request slot -> list of staged paths
    converted_files,  \* request slot -> list of output paths
    outpath,          \* request slot -> path the adapter writes / returned
    status,           \* request slot -> response status (0: none yet)
    cleanup_list,     \* request slot -> files the synchronous cleanup has left
    tpc,              \* request slot -> position of its cleanup thread
    thread_list,      \* request slot -> files the cleanup thread has left
    jpc,              \* janitor: "sleep", "upload", "converted"
    jentries,         \* janitor: entries of the current glob still to visit
    wrote,            \* ghost: paths the request wrote
    reason,           \* ghost: why the request was refused / failed
    adapter_calls,    \* ghost: adapter invocations of the request
    adapter_result,   \* ghost: what the adapter's engine did
    too_large,        \* ghost: the transport found the request too large
    sent,             \* ghost: content of the file send_file opened
    arg,              \* input of the adapter routine under test; in a
                      \* request, the inputs merge_pdfs was called with
                      \* (result then holds what it gave)
    result            \* what the routine returned for arg

vars == <<fs, pc, route, file_count, nfiles, idx, uploaded_files,
          converted_files, outpath, status, cleanup_list, tpc, thread_list,
          jpc, jentries, wrote, reason, adapter_calls, adapter_result,
          too_large, sent, arg, result>>

reqvars == <<pc, route, file_count, nfiles, idx, uploaded_files,
             converted_files, outpath, status, cleanup_list, tpc, thread_list,
             wrote, reason, adapter_calls, adapter_result, too_large, sent>>
janvars == <<jpc, jentries>>
purevars == <<arg, result>>
envvars == <<janvars, purevars>>

\* -------------------------------------------------------------- the disk
Exists(p) == p \in DOMAIN fs
UPLOAD_FOLDER == {p \in DOMAIN fs : p.dir = "upload"}
CONVERTED_FOLDER == {p \in DOMAIN fs : p.dir = "converted"}
Path(d, i, e) == [dir |-> d, id |-> i, ext |-> e]

WriteFile(f, p, c) == [q \in DOMAIN f \cup {p} |->
                          IF q = p THEN [age |-> 0, content |-> c] ELSE f[q]]
RemoveFile(f, p) == [q \in DOMAIN f \ {p} |-> f[q]]

\* ids held by a file or by a list of a request or of the janitor
UsedIds ==
    {p.id : p \in DOMAIN fs}
    \cup UNION {{p.id : p \in SeqToSet(uploaded_files[r])} : r \in Requests}
    \cup UNION {{p.id : p \in SeqToSet(converted_files[r])} : r \in Requests}
    \cup UNION {{p.id : p \in SeqToSet(thread_list[r])} : r \in Requests}
    \cup UNION {{p.id : p \in SeqToSet(cleanup_list[r])} : r \in Requests}
    \cup UNION {{p.id : p \in wrote[r]} : r \in Requests}
    \cup {outpath[r].id : r \in Requests}
    \cup {p.id : p \in jentries}

\* str(uuid.uuid4()): an id no path of the system holds
uuid4 == CHOOSE n \in 1..(Cardinality(UsedIds) + 1) :
             n \notin UsedIds /\ \A m \in 1..(n - 1) : m \in UsedIds

InitService ==
    /\ fs = << >>
    /\ pc = [r \in Requests |-> "idle"]
    /\ route = [r \in Requests |-> "pdf-to-word"]
    /\ file_count = [r \in Requests |-> Absent]
    /\ nfiles = [r \in Requests |-> 0]
    /\ idx = [r \in Requests |-> 0]
    /\ uploaded_files = [r \in Requests |-> << >>]
    /\ converted_files = [r \in Requests |-> << >>]
    /\ outpath = [r \in Requests |-> NoPath]
    /\ status = [r \in Requests |-> 0]
    /\ cleanup_list = [r \in Requests |-> << >>]
    /\ tpc = [r \in Requests |-> "none"]
    /\ thread_list = [r \in Requests |-> << >>]
    /\ jpc = "sleep"
    /\ jentries = {}
    /\ wrote = [r \in Requests |-> {}]
    /\ reason = [r \in Requests |-> "none"]
    /\ adapter_calls = [r \in Requests |-> 0]
    /\ adapter_result = [r \in Requests |-> "none"]
    /\ too_large = [r \in Requests |-> FALSE]
    /\ sent = [r \in Requests |-> NoFile]

\* no adapter routine is under test
Init == InitService /\ arg = << >> /\ result = << >>

\* ------------------------------------------------------- request handlers
\* A slot takes a request when its last handler has returned and its last
\* cleanup thread has finished.
\* `backlog`: the files the directories may hold when a request is admitted.
Free(r) == pc[r] \in {"idle", "done"} /\ tpc[r] \in {"none", "done"}
Admit(r, backlog) == Free(r) /\ Cardinality(DOMAIN fs) <= backlog

\* The handler's locals at its first line, and the ghosts of a new request.
Fresh(r, rt, field) ==
    /\ route' = [route EXCEPT ![r] = rt]
    /\ file_count' = [file_count EXCEPT ![r] = field]
    /\ converted_files' = [converted_files EXCEPT ![r] = << >>]
    /\ outpath' = [outpath EXCEPT ![r] = NoPath]
    /\ cleanup_list' = [cleanup_list EXCEPT ![r] = << >>]
    /\ tpc' = [tpc EXCEPT ![r] = "none"]
    /\ thread_list' = [thread_list EXCEPT ![r] = << >>]
    /\ adapter_calls' = [adapter_calls EXCEPT ![r] = 0]
    /\ adapter_result' = [adapter_result EXCEPT ![r] = "none"]
    /\ sent' = [sent EXCEPT ![r] = NoFile]

\* return jsonify({'error': ...}), code  -- straight out of the handler
Return(r, code, why) ==
    /\ pc' = [pc EXCEPT ![r] = "done"]
    /\ status' = [status EXCEPT ![r] = code]
    /\ reason' = [reason EXCEPT ![r] = why]

\* an exception reaches the handler's "except Exception" block
Raise(r, why) ==
    /\ pc' = [pc EXCEPT ![r] = "except"]
    /\ status' = [status EXCEPT ![r] = 0]
    /\ reason' = [reason EXCEPT ![r] = why]

Goto(r, where) ==
    /\ pc' = [pc EXCEPT ![r] = where]
    /\ status' = [status EXCEPT ![r] = 0]
    /\ reason' = [reason EXCEPT ![r] = "none"]

\* werkzeug refuses to parse a body longer than MAX_CONTENT_LENGTH: the first
\* access to request.files / request.form raises RequestEntityTooLarge.
RequestEntityTooLarge(content_length) == content_length > MAX_CONTENT_LENGTH

\* file.save(path); uploaded_files.append(path); the os.path.exists /
\* os.path.getsize check that follows.  TRUE when the check passes.
SavedOk(part) == part.size # 0

\* One uploaded part through validation and staging, as every route does it:
\* the empty-filename check, allowed_file, then uuid + save + verify.
\* `next` is where the handler goes when the part is staged.
StagePart(r, rt, part, first, next) ==
    LET staged == IF first THEN << >> ELSE uploaded_files[r]
        written == IF first THEN {} ELSE wrote[r]
        path == Path("upload", uuid4, part.filename.ext)
    IN  IF part.filename = EmptyName
        THEN /\ Return(r, 400, "empty_filename")
             /\ uploaded_files' = [uploaded_files EXCEPT ![r] = << >>]
             /\ wrote' = [wrote EXCEPT ![r] = written]
             /\ UNCHANGED fs
        ELSE IF ~allowed_file(part.filename, Category(rt))
        THEN /\ Return(r, 400, "bad_ext")
             /\ uploaded_files' = [uploaded_files EXCEPT ![r] = << >>]
             /\ wrote' = [wrote EXCEPT ![r] = written]
             /\ UNCHANGED fs
        ELSE /\ fs' = WriteFile(fs, path, Plain(part.size))
             /\ uploaded_files' = [uploaded_files EXCEPT ![r] = Append(staged, path)]
             /\ wrote' = [wrote EXCEPT ![r] = written \cup {path}]
             /\ IF SavedOk(part) THEN Goto(r, next) ELSE Raise(r, "empty_upload")

\* convert_pdf_to_word / convert_word_to_pdf, from the first line to the call
\* of the adapter.  `available`: PDF2DOCX_AVAILABLE, resp. the result of
\* check_libreoffice_installation().
SingleFile_Entry(r, rt, available, content_length, has_file, part, backlog) ==
    /\ Admit(r, backlog)
    /\ rt \in {"pdf-to-word", "word-to-pdf"}
    /\ Fresh(r, rt, Absent)
    /\ nfiles' = [nfiles EXCEPT ![r] = 0]
    /\ idx' = [idx EXCEPT ![r] = 0]
    /\ too_large' = [too_large EXCEPT ![r] =
                        available /\ RequestEntityTooLarge(content_length)]
    /\ IF ~available
       THEN /\ Return(r, 500, "unavailable")
            /\ uploaded_files' = [uploaded_files EXCEPT ![r] = << >>]
            /\ wrote' = [wrote EXCEPT ![r] = {}]
            /\ UNCHANGED fs
       ELSE IF RequestEntityTooLarge(content_length)
       THEN /\ Raise(r, "too_large")
            /\ uploaded_files' = [uploaded_files EXCEPT ![r] = << >>]
            /\ wrote' = [wrote EXCEPT ![r] = {}]
            /\ UNCHANGED fs
       ELSE IF ~has_file
       THEN /\ Return(r, 400, "no_file")
            /\ uploaded_files' = [uploaded_files EXCEPT ![r] = << >>]
            /\ wrote' = [wrote EXCEPT ![r] = {}]
            /\ UNCHANGED fs
       ELSE StagePart(r, rt, part, TRUE, "adapter")
    /\ arg' = << >>
    /\ result' = << >>
    /\ UNCHANGED janvars

\* the range checks of merge_pdf_files on int(file_count); first the
\* variant with the lower check alone
MergeCountOnlyMin(count) == count < MERGE_MIN
MergeCountRejected(count) == count < MERGE_MIN \/ count > MERGE_MAX

\* merge_pdf_files, from the first line to the start of the staging loop.
merge_pdf_files_Entry(r, content_length, field, backlog) ==
    /\ Admit(r, backlog)
    /\ Fresh(r, "merge-pdf", field)
    /\ idx' = [idx EXCEPT ![r] = 0]
    /\ uploaded_files' = [uploaded_files EXCEPT ![r] = << >>]
    /\ wrote' = [wrote EXCEPT ![r] = {}]
    /\ too_large' = [too_large EXCEPT ![r] = RequestEntityTooLarge(content_length)]
    /\ IF RequestEntityTooLarge(content_length)
       THEN Raise(r, "too_large")
       ELSE IF field.kind = "text"
       THEN Raise(r, "count_text")
       ELSE IF MergeCountRejected(IntOf(field))
       THEN Return(r, 400, "count_range")
       ELSE Goto(r, "loop")
    /\ nfiles' = [nfiles EXCEPT ![r] = IF pc'[r] = "loop" THEN IntOf(field) ELSE 0]
    /\ arg' = << >>
    /\ result' = << >>
    /\ UNCHANGED <<fs, janvars>>

\* One iteration of merge_pdf_files' loop over range(file_count).
merge_pdf_files_Part(r, part, maxParts) ==
    /\ pc[r] = "loop"
    /\ route[r] = "merge-pdf"
    /\ part.present => idx[r] < maxParts
    /\ IF ~part.present
       THEN /\ Return(r, 400, "missing_part")
            /\ uploaded_files' = [uploaded_files EXCEPT ![r] = << >>]
            /\ UNCHANGED <<fs, wrote>>
       ELSE StagePart(r, "merge-pdf", part, FALSE,
                      IF idx[r] + 1 = nfiles[r] THEN "adapter" ELSE "loop")
    /\ idx' = [idx EXCEPT ![r] = IF pc'[r] = "done" THEN 0 ELSE @ + 1]
    /\ nfiles' = [nfiles EXCEPT ![r] = IF pc'[r] = "done" THEN 0 ELSE @]
    /\ UNCHANGED <<route, file_count, converted_files, outpath,
                   cleanup_list, tpc, thread_list, adapter_calls,
                   adapter_result, too_large, sent, envvars>>

\* convert_images_to_pdf, from the first line to the start of the staging
\* loop.  `present`: how many of the keys file_0 .. file_{file_count-1} the
\* request carries (the others are skipped).  With a 'file' part the
\* 'file_count' field is not read.
convert_images_to_pdf_Entry(r, content_length, has_file, field, present, backlog) ==
    /\ Admit(r, backlog)
    /\ present \in 0..(IF has_file \/ IntOf(field) < 0 THEN 0 ELSE IntOf(field))
    /\ Fresh(r, "image-to-pdf", IF has_file THEN Absent ELSE field)
    /\ idx' = [idx EXCEPT ![r] = 0]
    /\ uploaded_files' = [uploaded_files EXCEPT ![r] = << >>]
    /\ wrote' = [wrote EXCEPT ![r] = {}]
    /\ too_large' = [too_large EXCEPT ![r] = RequestEntityTooLarge(content_length)]
    /\ IF RequestEntityTooLarge(content_length)
       THEN Raise(r, "too_large")
       ELSE IF has_file
       THEN Goto(r, "loop")
       ELSE IF field.kind = "text"
       THEN Raise(r, "count_text")
       ELSE IF IntOf(field) = 0
       THEN Return(r, 400, "no_file")
       ELSE IF IntOf(field) > IMAGE_MAX
       THEN Return(r, 400, "count_range")
       ELSE IF present = 0
       THEN Return(r, 400, "no_file")
       ELSE Goto(r, "loop")
    /\ nfiles' = [nfiles EXCEPT ![r] =
                     IF pc'[r] # "loop" THEN 0 ELSE IF has_file THEN 1 ELSE present]
    /\ arg' = << >>
    /\ result' = << >>
    /\ UNCHANGED <<fs, janvars>>

\* One iteration of convert_images_to_pdf's loop over files.
convert_images_to_pdf_Part(r, part) ==
    /\ pc[r] = "loop"
    /\ route[r] = "image-to-pdf"
    /\ part.present
    /\ StagePart(r, "image-to-pdf", part, FALSE,
                 IF idx[r] + 1 = nfiles[r] THEN "adapter" ELSE "loop")
    /\ idx' = [idx EXCEPT ![r] = IF pc'[r] = "done" THEN 0 ELSE @ + 1]
    /\ nfiles' = [nfiles EXCEPT ![r] = IF pc'[r] = "done" THEN 0 ELSE @]
    /\ UNCHANGED <<route, file_count, converted_files, outpath,
                   cleanup_list, tpc, thread_list, adapter_calls,
                   adapter_result, too_large, sent, envvars>>
\* --------------------------------------------------------------- adapters
\* The output checks of convert_pdf_to_docx_with_pdf2docx on the file the
\* library left at docx_path (NoFile: none); "ok" or the exception raised.
\* First the variant that does not look into word/document.xml.
DocxValidationNoDocSize(c) ==
    IF c = NoFile THEN "no_output"
    ELSE IF c.size = 0 THEN "empty"
    ELSE IF c.size < DOCX_MIN_SIZE THEN "small"
    ELSE IF ~c.zip THEN "bad_zip"
    ELSE IF {"[Content_Types].xml", "word/document.xml"} \ c.names # {}
    THEN "missing_files"
    ELSE "ok"

DocxValidation(c) ==
    IF c = NoFile THEN "no_output"
    ELSE IF c.size = 0 THEN "empty"
    ELSE IF c.size < DOCX_MIN_SIZE THEN "small"
    ELSE IF ~c.zip THEN "bad_zip"
    ELSE IF {"[Content_Types].xml", "word/document.xml"} \ c.names # {}
    THEN "missing_files"
    ELSE IF c.doclen < DOCXML_MIN_SIZE THEN "doc_small"
    ELSE "ok"

\* The output checks of convert_with_libreoffice on the located file.
OfficeValidation(c) ==
    IF c = NoFile THEN "no_output"
    ELSE IF c.size = 0 THEN "empty"
    ELSE IF c.size < LO_MIN_SIZE THEN "small"
    ELSE "ok"

\* A staged PDF as PdfReader sees it: missing, unreadable, or its pages.
Pdf(ex, rd, pg) == [exists |-> ex, readable |-> rd, pages |-> pg]

\* merge_pdfs' loop; first the variant that passes over an input that is
\* missing, unreadable or without pages and merges the others.
RECURSIVE merge_loop_skipping(_, _, _)
merge_loop_skipping(pdfs, i, writer) ==
    IF i > Len(pdfs) THEN [ok |-> TRUE, pages |-> writer, failed |-> 0]
    ELSE IF ~pdfs[i].exists \/ ~pdfs[i].readable \/ Len(pdfs[i].pages) = 0
    THEN merge_loop_skipping(pdfs, i + 1, writer)
    ELSE merge_loop_skipping(pdfs, i + 1, writer \o pdfs[i].pages)

\* merge_pdfs' loop from input i on, `writer` holding the pages added so far;
\* an input that is missing, unreadable or without pages raises.
RECURSIVE merge_loop(_, _, _)
merge_loop(pdfs, i, writer) ==
    IF i > Len(pdfs) THEN [ok |-> TRUE, pages |-> writer, failed |-> 0]
    ELSE IF ~pdfs[i].exists THEN [ok |-> FALSE, pages |-> << >>, failed |-> i]
    ELSE IF ~pdfs[i].readable THEN [ok |-> FALSE, pages |-> << >>, failed |-> i]
    ELSE IF Len(pdfs[i].pages) = 0 THEN [ok |-> FALSE, pages |-> << >>, failed |-> i]
    ELSE merge_loop(pdfs, i + 1, writer \o pdfs[i].pages)

\* merge_pdfs; first the variant that goes through the inputs last to first
merge_pdfs_backwards(pdfs) ==
    merge_loop([i \in 1..Len(pdfs) |-> pdfs[Len(pdfs) + 1 - i]], 1, << >>)

merge_pdfs(pdfs) == merge_loop(pdfs, 1, << >>)

\* A staged image as PIL sees it: missing, failing to open or process, or
\* an image (named by its label).
Img(ex, good, lb) == [exists |-> ex, ok |-> good, label |-> lb]

\* images_to_pdf's loop from image i on: `pages` are the pages shown so far.
RECURSIVE images_loop(_, _, _)
images_loop(imgs, i, pages) ==
    IF i > Len(imgs) THEN pages
    ELSE IF ~imgs[i].exists THEN images_loop(imgs, i + 1, pages)
    ELSE IF ~imgs[i].ok THEN images_loop(imgs, i + 1, pages)
    ELSE images_loop(imgs, i + 1, Append(pages, imgs[i].label))

\* images_to_pdf; first the variant that gives up at the first image that
\* is missing or fails
images_to_pdf_strict(imgs) ==
    LET pages == images_loop(imgs, 1, << >>)
    IN  IF Len(pages) < Len(imgs)
        THEN [ok |-> FALSE, pages |-> << >>, processed |-> 0]
        ELSE [ok |-> TRUE, pages |-> pages, processed |-> Len(pages)]

images_to_pdf(imgs) ==
    LET pages == images_loop(imgs, 1, << >>)
        processed_images == Len(pages)
    IN  IF processed_images = 0
        THEN [ok |-> FALSE, pages |-> << >>, processed |-> 0]
        ELSE [ok |-> TRUE, pages |-> pages, processed |-> processed_images]

\* The first lines of every adapter: the two input checks of
\* convert_pdf_to_docx_with_pdf2docx and convert_with_libreoffice.
InputError(p) == IF ~Exists(p) THEN "input_missing"
                 ELSE IF fs[p].content.size = 0 THEN "input_empty"
                 ELSE "ok"

\* The path the route's adapter is to write; first the variant that names
\* the output after the format alone.
OutputPathByFormat(r) ==
    IF route[r] = "pdf-to-word" THEN Path("converted", 0, "docx")
    ELSE Path("converted", 0, "pdf")

\* The path the route's adapter is to write: <uuid>_<stem>.docx,
\* <stem of the staged file>.pdf, merged_<uuid>.pdf, images_<uuid>.pdf.
OutputPath(r) ==
    CASE route[r] = "pdf-to-word" -> Path("converted", uploaded_files[r][1].id, "docx")
      [] route[r] = "word-to-pdf" -> Path("converted", uploaded_files[r][1].id, "pdf")
      [] OTHER -> Path("converted", uuid4, "pdf")

\* The handler calls its adapter; the adapter runs up to the start of the
\* conversion engine (the input checks, the removal of an existing output).
Adapter_Start(r) ==
    /\ pc[r] = "adapter"
    /\ adapter_calls' = [adapter_calls EXCEPT ![r] = @ + 1]
    /\ outpath' = [outpath EXCEPT ![r] = OutputPath(r)]
    /\ IF route[r] \in {"pdf-to-word", "word-to-pdf"}
       THEN IF InputError(uploaded_files[r][1]) # "ok"
            THEN /\ Raise(r, "adapter")
                 /\ UNCHANGED fs
            ELSE /\ Goto(r, "converting")
                 /\ fs' = IF Exists(OutputPath(r))
                          THEN RemoveFile(fs, OutputPath(r)) ELSE fs
       ELSE /\ Goto(r, "converting")
            /\ UNCHANGED fs
    /\ UNCHANGED <<route, file_count, nfiles, idx, uploaded_files,
                   converted_files, cleanup_list, tpc, thread_list, wrote,
                   adapter_result, too_large, sent, envvars>>

\* adapter returned `path`: converted_files.append(path), on to send_file
AdapterReturns(r, path) ==
    /\ converted_files' = [converted_files EXCEPT ![r] = Append(@, path)]
    /\ outpath' = [outpath EXCEPT ![r] = path]
    /\ Goto(r, "respond")

\* the adapter raised: the exception reaches the handler's except block;
\* first the variant in which the handler calls the adapter again
AdapterRetried(r) ==
    /\ Goto(r, "adapter")
    /\ UNCHANGED <<converted_files, outpath>>

AdapterRaises(r) ==
    /\ Raise(r, "adapter")
    /\ UNCHANGED <<converted_files, outpath>>

\* pdf2docx ran: it raised or returned, having left `content` at docx_path
\* (NoFile: nothing); after a return, the output checks.
pdf2docx_Finish(r, raised, content) ==
    /\ pc[r] = "converting"
    /\ route[r] = "pdf-to-word"
    /\ adapter_result' = [adapter_result EXCEPT ![r] =
                             IF raised THEN "raised" ELSE DocxValidation(content)]
    /\ IF content # NoFile
       THEN /\ fs' = WriteFile(fs, outpath[r], content)
            /\ wrote' = [wrote EXCEPT ![r] = @ \cup {outpath[r]}]
       ELSE UNCHANGED <<fs, wrote>>
    /\ IF raised \/ DocxValidation(content) # "ok"
       THEN AdapterRaises(r)
       ELSE AdapterReturns(r, outpath[r])
    /\ UNCHANGED <<route, file_count, nfiles, idx, uploaded_files,
                   cleanup_list, tpc, thread_list, adapter_calls, too_large,
                   sent, envvars>>

\* The file convert_with_libreoffice settles on; first the variant whose
\* fallback is glob("*.*"), any file of the format in the output directory.
LocatedAnyStem(f, expected) ==
    IF expected \in DOMAIN f THEN {expected}
    ELSE {p \in DOMAIN f : p.dir = "converted"
                           /\ Lower(p.ext) = Lower(expected.ext)}

\* The file convert_with_libreoffice settles on: the expected one, else one
\* of glob(f"{input_name}.*") whose suffix lowercases to the format.
Located(f, expected) ==
    IF expected \in DOMAIN f THEN {expected}
    ELSE {p \in DOMAIN f : p.dir = "converted" /\ p.id = expected.id
                           /\ Lower(p.ext) = Lower(expected.ext)}

\* The libreoffice subprocess ended: rc is "ok" (exit 0), "fail" (another
\* exit code) or "timeout" (TimeoutExpired); it left `content` under the
\* extension `ext` in the output directory (NoFile: nothing).
libreoffice_Finish(r, rc, ext, content) ==
    /\ pc[r] = "converting"
    /\ route[r] = "word-to-pdf"
    /\ LET written == Path("converted", outpath[r].id, ext)
           disk == IF content # NoFile THEN WriteFile(fs, written, content) ELSE fs
       IN  /\ fs' = disk
           /\ wrote' = [wrote EXCEPT ![r] =
                           IF content # NoFile THEN @ \cup {written} ELSE @]
           /\ adapter_result' = [adapter_result EXCEPT ![r] = rc]
           /\ IF rc # "ok"
              THEN AdapterRaises(r)
              ELSE IF Located(disk, outpath[r]) = {}
              THEN AdapterRaises(r)
              ELSE \E found \in Located(disk, outpath[r]) :
                      IF OfficeValidation(disk[found].content) # "ok"
                      THEN AdapterRaises(r)
                      ELSE AdapterReturns(r, found)
    /\ UNCHANGED <<route, file_count, nfiles, idx, uploaded_files,
                   cleanup_list, tpc, thread_list, adapter_calls, too_large,
                   sent, envvars>>

\* The staged inputs of the request as the engine finds them: `docs` gives
\* what each one holds, the disk whether it is still there.
AsFound(r, docs) ==
    [i \in 1..Len(uploaded_files[r]) |->
        [docs[i] EXCEPT !.exists = Exists(uploaded_files[r][i])]]

\* merge_pdfs ran over the staged inputs; the merged file has `size` bytes.
merge_pdfs_Finish(r, docs, size) ==
    /\ pc[r] = "converting"
    /\ route[r] = "merge-pdf"
    /\ Len(docs) = Len(uploaded_files[r])
    /\ LET res == merge_pdfs(AsFound(r, docs))
       IN  /\ adapter_result' = [adapter_result EXCEPT ![r] =
                                    IF res.ok THEN "ok" ELSE "raised"]
           /\ IF res.ok
              THEN /\ fs' = WriteFile(fs, outpath[r], Plain(size))
                   /\ wrote' = [wrote EXCEPT ![r] = @ \cup {outpath[r]}]
                   /\ IF size = 0 THEN AdapterRaises(r)
                      ELSE AdapterReturns(r, outpath[r])
              ELSE /\ AdapterRaises(r)
                   /\ UNCHANGED <<fs, wrote>>
    /\ arg' = AsFound(r, docs)
    /\ result' = <<merge_pdfs(AsFound(r, docs))>>
    /\ UNCHANGED <<route, file_count, nfiles, idx, uploaded_files,
                   cleanup_list, tpc, thread_list, adapter_calls, too_large,
                   sent, janvars>>

\* images_to_pdf ran over the staged images; the PDF has `size` bytes.
images_to_pdf_Finish(r, imgs, size) ==
    /\ pc[r] = "converting"
    /\ route[r] = "image-to-pdf"
    /\ Len(imgs) = Len(uploaded_files[r])
    /\ LET res == images_to_pdf(AsFound(r, imgs))
       IN  /\ adapter_result' = [adapter_result EXCEPT ![r] =
                                    IF res.ok THEN "ok" ELSE "raised"]
           /\ IF res.ok
              THEN /\ fs' = WriteFile(fs, outpath[r], Plain(size))
                   /\ wrote' = [wrote EXCEPT ![r] = @ \cup {outpath[r]}]
                   /\ IF size = 0 THEN AdapterRaises(r)
                      ELSE AdapterReturns(r, outpath[r])
              ELSE /\ AdapterRaises(r)
                   /\ UNCHANGED <<fs, wrote>>
    /\ UNCHANGED <<route, file_count, nfiles, idx, uploaded_files,
                   cleanup_list, tpc, thread_list, adapter_calls, too_large,
                   sent, envvars>>
\* ------------------------------------------------ response and cleanups
\* cleanup_files_after_response(file_paths): the list the closure holds
cleanup_files_after_response(r) == uploaded_files[r] \o converted_files[r]

\* os.path.exists(p) and then os.remove(p); a file that is gone is passed over
RemoveIfExists(f, p) == IF p \in DOMAIN f THEN RemoveFile(f, p) ELSE f

\* The handler has returned: its locals are gone.
DropFrame(r) ==
    /\ idx' = [idx EXCEPT ![r] = 0]
    /\ nfiles' = [nfiles EXCEPT ![r] = 0]
    /\ uploaded_files' = [uploaded_files EXCEPT ![r] = << >>]
    /\ converted_files' = [converted_files EXCEPT ![r] = << >>]
    /\ outpath' = [outpath EXCEPT ![r] = NoPath]

\* After the adapter: (pdf-to-word: the final existence check;) the
\* after_this_request hook is registered and send_file opens the output.
\* The hook starts the cleanup thread when the response is handed over; a
\* send_file that raises leaves the hook registered (tpc "hooked").
Respond(r) ==
    /\ pc[r] = "respond"
    /\ IF Exists(outpath[r])
       THEN /\ pc' = [pc EXCEPT ![r] = "streaming"]
            /\ status' = [status EXCEPT ![r] = 200]
            /\ sent' = [sent EXCEPT ![r] = fs[outpath[r]].content]
            /\ tpc' = [tpc EXCEPT ![r] = "sleeping"]
            /\ thread_list' = [thread_list EXCEPT ![r] = cleanup_files_after_response(r)]
            /\ DropFrame(r)
            /\ UNCHANGED reason
       ELSE /\ Raise(r, IF route[r] = "pdf-to-word" THEN "output_missing" ELSE "send")
            /\ tpc' = [tpc EXCEPT ![r] = IF route[r] = "pdf-to-word" THEN "none" ELSE "hooked"]
            /\ UNCHANGED <<thread_list, sent, idx, nfiles, uploaded_files,
                           converted_files, outpath>>
    /\ UNCHANGED <<fs, route, file_count, cleanup_list, wrote,
                   adapter_calls, adapter_result, too_large, envvars>>

\* the last byte of the attachment has gone out
Sent(r) ==
    /\ pc[r] = "streaming"
    /\ pc' = [pc EXCEPT ![r] = "done"]
    /\ UNCHANGED <<fs, route, file_count, nfiles, idx, uploaded_files,
                   converted_files, outpath, status, cleanup_list, tpc,
                   thread_list, wrote, reason, adapter_calls, adapter_result,
                   too_large, sent, envvars>>

\* The except block: cleanup_func = cleanup_files_after_response(...);
\* cleanup_func() is called in the handler and has slept its 3 s.
Except_Start(r) ==
    /\ pc[r] = "except"
    /\ pc' = [pc EXCEPT ![r] = "cleanup"]
    /\ cleanup_list' = [cleanup_list EXCEPT ![r] = cleanup_files_after_response(r)]
    /\ UNCHANGED <<fs, route, file_count, nfiles, idx, uploaded_files,
                   converted_files, outpath, status, tpc, thread_list, wrote,
                   reason, adapter_calls, adapter_result, too_large, sent, envvars>>

\* one iteration of cleanup()'s loop, in the handler
Except_Remove(r) ==
    /\ pc[r] = "cleanup"
    /\ cleanup_list[r] # << >>
    /\ fs' = RemoveIfExists(fs, Head(cleanup_list[r]))
    /\ cleanup_list' = [cleanup_list EXCEPT ![r] = Tail(@)]
    /\ UNCHANGED <<pc, route, file_count, nfiles, idx, uploaded_files,
                   converted_files, outpath, status, tpc, thread_list, wrote,
                   reason, adapter_calls, adapter_result, too_large, sent, envvars>>

\* return jsonify({'error': ...}), 500 at the end of the except block; a
\* registered hook starts its thread on this response.
Except_Return(r) ==
    /\ pc[r] = "cleanup"
    /\ cleanup_list[r] = << >>
    /\ pc' = [pc EXCEPT ![r] = "done"]
    /\ status' = [status EXCEPT ![r] = 500]
    /\ tpc' = [tpc EXCEPT ![r] = IF @ = "hooked" THEN "sleeping" ELSE @]
    /\ thread_list' = [thread_list EXCEPT ![r] =
                          IF tpc[r] = "hooked" THEN cleanup_files_after_response(r) ELSE @]
    /\ DropFrame(r)
    /\ UNCHANGED <<fs, route, file_count, cleanup_list, wrote, reason,
                   adapter_calls, adapter_result, too_large, sent, envvars>>

\* the cleanup thread's time.sleep(3) is over
Thread_Wake(r) ==
    /\ tpc[r] = "sleeping"
    /\ tpc' = [tpc EXCEPT ![r] = IF thread_list[r] = << >> THEN "done" ELSE "running"]
    /\ UNCHANGED <<fs, pc, route, file_count, nfiles, idx, uploaded_files,
                   converted_files, outpath, status, cleanup_list,
                   thread_list, wrote, reason, adapter_calls, adapter_result,
                   too_large, sent, envvars>>

\* one iteration of cleanup()'s loop, in the thread
Thread_Remove(r) ==
    /\ tpc[r] = "running"
    /\ fs' = RemoveIfExists(fs, Head(thread_list[r]))
    /\ thread_list' = [thread_list EXCEPT ![r] = Tail(@)]
    /\ tpc' = [tpc EXCEPT ![r] = IF Tail(thread_list[r]) = << >> THEN "done" ELSE "running"]
    /\ UNCHANGED <<pc, route, file_count, nfiles, idx, uploaded_files,
                   converted_files, outpath, status, cleanup_list, wrote,
                   reason, adapter_calls, adapter_result, too_large, sent, envvars>>

\* ---------------------------------------------------------------- janitor
\* current_time - file_path.stat().st_mtime > 3600
Expired(f, p) == f[p].age > RETENTION

\* cleanup_old_files wakes from time.sleep(1800) and globs the upload folder
Janitor_Wake ==
    /\ jpc = "sleep"
    /\ jpc' = "upload"
    /\ jentries' = UPLOAD_FOLDER
    /\ UNCHANGED <<fs, reqvars, purevars>>

\* One entry of the current glob: stat() raises when the entry is gone, which
\* ends the sweep in the "except Exception" around both loops; an expired
\* entry is unlinked.
Janitor_Entry(p) ==
    /\ jpc \in {"upload", "converted"}
    /\ p \in jentries
    /\ IF ~Exists(p)
       THEN /\ jpc' = "sleep"
            /\ jentries' = {}
            /\ UNCHANGED fs
       ELSE /\ fs' = IF Expired(fs, p) THEN RemoveFile(fs, p) ELSE fs
            /\ jentries' = jentries \ {p}
            /\ UNCHANGED jpc
    /\ UNCHANGED <<reqvars, purevars>>

\* a glob is exhausted: on to the converted folder, or to time.sleep(1800)
Janitor_Next ==
    /\ jpc \in {"upload", "converted"}
    /\ jentries = {}
    /\ jpc' = IF jpc = "upload" THEN "converted" ELSE "sleep"
    /\ jentries' = IF jpc = "upload" THEN CONVERTED_FOLDER ELSE {}
    /\ UNCHANGED <<fs, reqvars, purevars>>

\* RETENTION seconds pass: every file is that much older.
Tick ==
    /\ jpc = "sleep"
    /\ \E p \in DOMAIN fs : fs[p].age < AgeCap
    /\ fs' = [p \in DOMAIN fs |->
                 [fs[p] EXCEPT !.age = Min(@ + RETENTION, AgeCap)]]
    /\ UNCHANGED <<jpc, jentries, reqvars, purevars>>

\* ------------------------------------------------------------ the system
AllNames == {"[Content_Types].xml", "word/document.xml"}
NoPart == [present |-> FALSE, filename |-> EmptyName, size |-> 0]
PartsOf(names, sizes) == [present : {TRUE}, filename : names, size : sizes]
ListsOf(S, n) == UNION {[1..k -> S] : k \in 1..n}
Big == MAX_CONTENT_LENGTH + 1

\* The requests to a single-file route that its handler tells apart: engine
\* unavailable, body too large, no 'file' part, or a 'file' part.
SingleRequests(parts) ==
    {[available |-> FALSE, length |-> 1, has_file |-> FALSE, part |-> NoPart],
     [available |-> TRUE, length |-> Big, has_file |-> TRUE, part |-> NoPart],
     [available |-> TRUE, length |-> 1, has_file |-> FALSE, part |-> NoPart]}
    \cup [available : {TRUE}, length : {1}, has_file : {TRUE}, part : parts]

\* The requests to the merge route: too large, or a 'file_count' field.
MergeRequests(fields) ==
    {[length |-> Big, field |-> Absent]} \cup [length : {1}, field : fields]

\* The requests to the image route: too large, a 'file' part, or a
\* 'file_count' field and some of the keys file_0 .. file_{count-1}.
ImageRequests(fields, maxParts) ==
    {[length |-> Big, has_file |-> FALSE, field |-> Absent, present |-> 0],
     [length |-> 1, has_file |-> TRUE, field |-> Absent, present |-> 0],
     [length |-> 1, has_file |-> TRUE, field |-> Num(IMAGE_MAX + 1), present |-> 0]}
    \cup {[length |-> 1, has_file |-> FALSE, field |-> f, present |-> k] :
             f \in fields, k \in 0..maxParts}

\* What requests and engines are drawn from: every kind of part, field and
\* engine outcome the handlers tell apart.
Inputs ==
    [backlog |-> MaxBacklog,
     routes |-> {"pdf-to-word", "word-to-pdf"},
     parts |-> PartsOf({EmptyName, FName(NoDot), FName("pdf"), FName("PDF"),
                        FName("docx"), FName("png"), FName("txt")}, {0, 1}),
     fields |-> {Absent, Text, Num(-1), Num(1), Num(2), Num(MERGE_MAX),
                 Num(MERGE_MAX + 1), Num(IMAGE_MAX), Num(IMAGE_MAX + 1)},
     max_parts |-> MaxParts,
     raised |-> BOOLEAN,
     docx |-> {NoFile, Plain(0), Plain(DOCX_MIN_SIZE - 1), Plain(DOCX_MIN_SIZE),
               Docx(DOCX_MIN_SIZE, {"word/document.xml"}, DOCXML_MIN_SIZE),
               Docx(DOCX_MIN_SIZE, {"[Content_Types].xml"}, 0),
               Docx(DOCX_MIN_SIZE, AllNames, DOCXML_MIN_SIZE - 1),
               Docx(DOCX_MIN_SIZE - 1, AllNames, DOCXML_MIN_SIZE),
               Docx(DOCX_MIN_SIZE, AllNames, DOCXML_MIN_SIZE)},
     rc |-> {"ok", "fail", "timeout"},
     ext |-> {"pdf", "PDF"},
     office |-> {NoFile, Plain(0), Plain(LO_MIN_SIZE - 1), Plain(LO_MIN_SIZE)},
     pdfs |-> {Pdf(TRUE, FALSE, << >>), Pdf(TRUE, TRUE, << >>),
               Pdf(TRUE, TRUE, <<"a">>)},
     imgs |-> {Img(TRUE, FALSE, "a"), Img(TRUE, TRUE, "a")},
     sizes |-> {0, 1}]

\* The steps of the handler of request r, its inputs drawn from In.
Handler(r, In) ==
    \/ \E rt \in In.routes, q \in SingleRequests(In.parts) :
          SingleFile_Entry(r, rt, q.available, q.length, q.has_file, q.part,
                           In.backlog)
    \/ \E q \in MergeRequests(In.fields) :
          merge_pdf_files_Entry(r, q.length, q.field, In.backlog)
    \/ \E part \in In.parts \cup {NoPart} :
          merge_pdf_files_Part(r, part, In.max_parts)
    \/ \E q \in ImageRequests(In.fields, In.max_parts) :
          convert_images_to_pdf_Entry(r, q.length, q.has_file, q.field,
                                      q.present, In.backlog)
    \/ \E part \in In.parts : convert_images_to_pdf_Part(r, part)
    \/ Adapter_Start(r)
    \/ \E raised \in In.raised, c \in In.docx : pdf2docx_Finish(r, raised, c)
    \/ \E rc \in In.rc, ext \in In.ext, c \in In.office :
          libreoffice_Finish(r, rc, ext, c)
    \/ \E docs \in ListsOf(In.pdfs, In.max_parts), size \in In.sizes :
          merge_pdfs_Finish(r, docs, size)
    \/ \E imgs \in ListsOf(In.imgs, In.max_parts), size \in In.sizes :
          images_to_pdf_Finish(r, imgs, size)
    \/ Respond(r)
    \/ Sent(r)
    \/ Except_Start(r)
    \/ Except_Remove(r)
    \/ Except_Return(r)

Thread(r) == Thread_Wake(r) \/ Thread_Remove(r)

Janitor == Janitor_Wake \/ (\E p \in jentries : Janitor_Entry(p)) \/ Janitor_Next

\* One request at a time, with its cleanup thread; no janitor.
Next == Handler(1, Inputs) \/ Thread(1)

Spec == Init /\ [][Next]_vars

\* The running service: requests, cleanup threads, the janitor and time.
\* Requests are drawn from fewer kinds of input.
FewInputs ==
    [Inputs EXCEPT
        !.backlog = MaxBacklog + 1,
        !.parts = PartsOf({FName("pdf"), FName("txt")}, {1}),
        !.fields = {Num(MERGE_MIN)},
        !.raised = {FALSE},
        !.docx = {NoFile, Docx(DOCX_MIN_SIZE, AllNames, DOCXML_MIN_SIZE)},
        !.rc = {"ok", "timeout"},
        !.ext = {"pdf"},
        !.office = {Plain(LO_MIN_SIZE)},
        !.pdfs = {Pdf(TRUE, TRUE, << >>), Pdf(TRUE, TRUE, <<"a">>)},
        !.imgs = {Img(TRUE, FALSE, "a"), Img(TRUE, TRUE, "a")},
        !.sizes = {1}]

\* Two requests at a time, each with its cleanup thread; no janitor. The
\* engines succeed; libreoffice may leave its output under an upper-case
\* extension or leave none.
PairInputs ==
    [FewInputs EXCEPT
        !.parts = PartsOf({FName("pdf"), FName("docx")}, {1}),
        !.docx = {Docx(DOCX_MIN_SIZE, AllNames, DOCXML_MIN_SIZE)},
        !.rc = {"ok"},
        !.ext = {"pdf", "PDF"},
        !.office = {NoFile, Plain(LO_MIN_SIZE)},
        !.pdfs = {Pdf(TRUE, TRUE, <<"a">>)},
        !.imgs = {Img(TRUE, TRUE, "a")}]

\* The steps of the handlers of the single-file routes and of the merge
\* route; every request carries its 'file' part, of either kind, and the
\* parts of a merge request are PDFs.
PairHandler(r, In) ==
    \/ \E rt \in In.routes, part \in In.parts :
          SingleFile_Entry(r, rt, TRUE, 1, TRUE, part, In.backlog)
    \/ \E q \in MergeRequests(In.fields) :
          merge_pdf_files_Entry(r, q.length, q.field, In.backlog)
    \/ \E part \in {p \in In.parts : allowed_file(p.filename, "pdf")} :
          merge_pdf_files_Part(r, part, In.max_parts)
    \/ Adapter_Start(r)
    \/ \E raised \in In.raised, c \in In.docx : pdf2docx_Finish(r, raised, c)
    \/ \E rc \in In.rc, ext \in In.ext, c \in In.office :
          libreoffice_Finish(r, rc, ext, c)
    \/ \E docs \in ListsOf(In.pdfs, In.max_parts), size \in In.sizes :
          merge_pdfs_Finish(r, docs, size)
    \/ Respond(r)
    \/ Sent(r)
    \/ Except_Start(r)
    \/ Except_Remove(r)
    \/ Except_Return(r)

NextPair == \E r \in Requests : PairHandler(r, PairInputs) \/ Thread(r)

SpecPair == Init /\ [][NextPair]_vars

\* The steps of the handler of the merge route alone.
MergeHandler(r, In) ==
    \/ \E q \in MergeRequests(In.fields) :
          merge_pdf_files_Entry(r, q.length, q.field, In.backlog)
    \/ \E part \in In.parts \cup {NoPart} :
          merge_pdf_files_Part(r, part, In.max_parts)
    \/ Adapter_Start(r)
    \/ \E docs \in ListsOf(In.pdfs, In.max_parts), size \in In.sizes :
          merge_pdfs_Finish(r, docs, size)
    \/ Respond(r)
    \/ Sent(r)
    \/ Except_Start(r)
    \/ Except_Remove(r)
    \/ Except_Return(r)

\* a step of a handler that is under way (no new request)
Progress(r, In) ==
    \/ \E part \in In.parts \cup {NoPart} :
          merge_pdf_files_Part(r, part, In.max_parts)
    \/ Adapter_Start(r)
    \/ \E docs \in ListsOf(In.pdfs, In.max_parts), size \in In.sizes :
          merge_pdfs_Finish(r, docs, size)
    \/ Respond(r)
    \/ Sent(r)
    \/ Except_Start(r)
    \/ Except_Remove(r)
    \/ Except_Return(r)

NextService == MergeHandler(1, FewInputs) \/ Thread(1) \/ Janitor \/ Tick

SpecService == Init /\ [][NextService]_vars

\* The service with its threads scheduled: the janitor thread, the cleanup
\* threads and a handler under way keep running, and time passes.
FairService ==
    /\ SpecService
    /\ WF_vars(Janitor)
    /\ SF_vars(Tick)
    /\ WF_vars(Thread(1))
    /\ WF_vars(Progress(1, FewInputs))

\* ------------------------------------------- the multi-file routes at length
\* Requests to the two multi-file routes that carry up to MaxPartsSeq parts,
\* all PDFs or PNGs, with engines that succeed.
SeqInputs ==
    [Inputs EXCEPT
        !.parts = PartsOf({FName("pdf"), FName("png")}, {1}),
        !.fields = {Absent, Num(1), Num(MERGE_MIN), Num(MERGE_MAX),
                    Num(MERGE_MAX + 1), Num(IMAGE_MAX), Num(IMAGE_MAX + 1)},
        !.max_parts = MaxPartsSeq,
        !.pdfs = {Pdf(TRUE, TRUE, <<"a">>)},
        !.imgs = {Img(TRUE, TRUE, "a")}]

\* The steps of the handlers of the merge and the image route.
SeqHandler(r, In) ==
    \/ \E q \in MergeRequests(In.fields) :
          merge_pdf_files_Entry(r, q.length, q.field, In.backlog)
    \/ \E part \in In.parts \cup {NoPart} :
          merge_pdf_files_Part(r, part, In.max_parts)
    \/ \E q \in ImageRequests(In.fields, In.max_parts) :
          convert_images_to_pdf_Entry(r, q.length, q.has_file, q.field,
                                      q.present, In.backlog)
    \/ \E part \in In.parts : convert_images_to_pdf_Part(r, part)
    \/ Adapter_Start(r)
    \/ \E docs \in ListsOf(In.pdfs, In.max_parts), size \in In.sizes :
          merge_pdfs_Finish(r, docs, size)
    \/ \E imgs \in ListsOf(In.imgs, In.max_parts), size \in In.sizes :
          images_to_pdf_Finish(r, imgs, size)
    \/ Respond(r)
    \/ Sent(r)
    \/ Except_Start(r)
    \/ Except_Remove(r)
    \/ Except_Return(r)

NextSeq == SeqHandler(1, SeqInputs) \/ Thread(1)

SpecSeq == Init /\ [][NextSeq]_vars

\* ------------------------------------------------- the routines on their own
\* The page sequences, staged PDFs, staged images and part sizes the
\* routines are applied to.
PageSeqs == UNION {[1..k -> {"a", "b"}] : k \in 0..MaxPages}
PdfInputs == {Pdf(FALSE, FALSE, << >>), Pdf(TRUE, FALSE, << >>)}
             \cup {Pdf(TRUE, TRUE, pg) : pg \in PageSeqs}
ImgInputs == {Img(ex, good, lb) : ex \in BOOLEAN, good \in BOOLEAN, lb \in {"a", "b"}}
SizeInputs == {0, 1, 6 * 1024 * 1024, MAX_FILE_SIZE, MAX_FILE_SIZE + 1}

RECURSIVE Sum(_)
Sum(sizes) == IF sizes = << >> THEN 0 ELSE Head(sizes) + Sum(Tail(sizes))

\* The Content-Length of a multipart body: the bytes of its parts and of the
\* boundaries and part headers between them.
ContentLength(body) == Sum(body.sizes) + body.framing

PureArgs ==
    {[fn |-> "merge_pdfs", input |-> docs] : docs \in ListsOf(PdfInputs, MaxDocs)}
    \cup {[fn |-> "images_to_pdf", input |-> imgs] : imgs \in ListsOf(ImgInputs, MaxImgs)}
    \cup {[fn |-> "transport", input |-> [sizes |-> sz, framing |-> fr]] :
             sz \in ListsOf(SizeInputs, MaxDocs), fr \in {1, 200}}

InitPure == InitService /\ arg \in PureArgs /\ result = << >>

merge_pdfs_Apply ==
    /\ arg.fn = "merge_pdfs"
    /\ result = << >>
    /\ result' = <<merge_pdfs(arg.input)>>
    /\ UNCHANGED <<arg, fs, reqvars, janvars>>

images_to_pdf_Apply ==
    /\ arg.fn = "images_to_pdf"
    /\ result = << >>
    /\ result' = <<images_to_pdf(arg.input)>>
    /\ UNCHANGED <<arg, fs, reqvars, janvars>>

\* the transport layer's decision on a body, before any handler code
Transport_Apply ==
    /\ arg.fn = "transport"
    /\ result = << >>
    /\ result' = <<[too_large |-> RequestEntityTooLarge(ContentLength(arg.input))]>>
    /\ UNCHANGED <<arg, fs, reqvars, janvars>>

NextPure == merge_pdfs_Apply \/ images_to_pdf_Apply \/ Transport_Apply

SpecPure == InitPure /\ [][NextPure]_vars

\* ------------------------------------------------------------ properties
\* paths the running service can hold
ServicePaths == [dir : {"upload", "converted"}, id : 1..MaxId, ext : {"pdf"}]

\* C1: once a request has ended and its cleanup thread, if it has one, has
\* run (the grace period is over), none of the files the request wrote to
\* the upload or the converted directory exists.
C1_NothingLeftBehind ==
    \A r \in Requests :
        (pc[r] = "done" /\ tpc[r] \in {"none", "done"})
            => wrote[r] \cap DOMAIN fs = {}

\* C2: a request refused for a part whose extension is not allowed for the
\* route is answered 400, and at that moment the upload directory holds no
\* file of the request.
C2_RefusedExtensionLeavesNothing ==
    \A r \in Requests :
        (pc[r] = "done" /\ reason[r] = "bad_ext")
            => status[r] = 400 /\ wrote[r] \cap UPLOAD_FOLDER = {}

\* C3: every file of the upload or the converted directory is eventually
\* deleted, in every execution of the running service.
C3_EveryFileEventuallyDeleted ==
    \A p \in ServicePaths : (p \in DOMAIN fs) ~> (p \notin DOMAIN fs)

C5_MergeConcatenates ==
    (arg.fn = "merge_pdfs" /\ result # << >>) =>
        LET pdfs == arg.input
            out == result[1].pages
            Offset(i) == Sum([k \in 1..(i - 1) |-> Len(pdfs[k].pages)])
        IN  (/\ Len(pdfs) \in 2..10
             /\ \A i \in 1..Len(pdfs) :
                   pdfs[i].exists /\ pdfs[i].readable /\ Len(pdfs[i].pages) >= 1)
            => /\ result[1].ok
               /\ Len(out) = Offset(Len(pdfs) + 1)
               /\ \A i \in 1..Len(pdfs) : \A j \in 1..Len(pdfs[i].pages) :
                     out[Offset(i) + j] = pdfs[i].pages[j]

\* three inputs with different pages have been merged
C5_Witness ==
    /\ arg.fn = "merge_pdfs"
    /\ result # << >>
    /\ Len(arg.input) = 3
    /\ result[1].ok
    /\ result[1].pages = <<"a", "b", "b", "a">>

\* C6: images_to_pdf gives one page per image that exists and is processed,
\* in input order, passing over the others; it succeeds exactly when at
\* least one image is processed, and fails without pages otherwise.
C6_OnePagePerProcessedImage ==
    (arg.fn = "images_to_pdf" /\ result # << >>) =>
        LET Processed(m) == m.exists /\ m.ok
            good == SelectSeq(arg.input, Processed)
        IN  /\ result[1].ok <=> (good # << >>)
            /\ result[1].pages = [i \in 1..Len(good) |-> good[i].label]

\* a batch of three has been converted in which one image failed
C6_Witness ==
    /\ arg.fn = "images_to_pdf"
    /\ result # << >>
    /\ Len(arg.input) = 3
    /\ \E i \in 1..3 : arg.input[i].exists /\ ~arg.input[i].ok
    /\ result[1].ok
    /\ result[1].pages = <<"a", "b">>

\* C7: a request calls its adapter at most once; when the libreoffice
\* subprocess times out the adapter raises, nothing is sent and the request
\* ends with status 500.
C7_AdapterOnceAndTimeoutFails ==
    \A r \in Requests :
        /\ adapter_calls[r] <= 1
        /\ adapter_result[r] = "timeout"
              => /\ pc[r] \in {"except", "cleanup", "done"}
                 /\ converted_files[r] = << >>
                 /\ sent[r] = NoFile
                 /\ status[r] = IF pc[r] = "done" THEN 500 ELSE 0

\* a word-to-pdf request whose subprocess timed out has been answered
C7_Witness ==
    \E r \in Requests :
        /\ pc[r] = "done"
        /\ route[r] = "word-to-pdf"
        /\ adapter_result[r] = "timeout"
        /\ adapter_calls[r] = 1
        /\ status[r] = 500

\* C8: what the pdf-to-word route sends with status 200 is a file of at
\* least 100 bytes that is an archive with '[Content_Types].xml' and
\* 'word/document.xml', the latter of at least 50 bytes; a conversion whose
\* output failed a check, or that raised, never ends in status 200.
C8_DocxSentOnlyIfValid ==
    \A r \in Requests :
        route[r] = "pdf-to-word" =>
            /\ status[r] = 200
                  => /\ sent[r].size >= 100
                     /\ sent[r].zip
                     /\ {"[Content_Types].xml", "word/document.xml"} \subseteq sent[r].names
                     /\ sent[r].doclen >= 50
            /\ adapter_result[r] \notin {"none", "ok"} => status[r] \in {0, 500}
            /\ (adapter_result[r] \notin {"none", "ok"} /\ pc[r] = "done")
                  => status[r] = 500

\* a pdf-to-word request has been answered with a docx of the least sizes
C8_Witness ==
    \E r \in Requests :
        /\ pc[r] = "done"
        /\ route[r] = "pdf-to-word"
        /\ status[r] = 200
        /\ sent[r].size = 100
        /\ sent[r].doclen = 50

\* C9: a request refused for its input (no file part, empty filename,
\* extension not allowed, positional part missing, file_count out of range or
\* not a number) is answered 400; one that failed in an adapter or on the
\* file system is answered 500.
C9_Taxonomy ==
    \A r \in Requests :
        pc[r] = "done" =>
            /\ reason[r] \in {"no_file", "empty_filename", "bad_ext",
                              "missing_part", "count_range", "count_text"}
                  => status[r] = 400
            /\ reason[r] \in {"unavailable", "adapter", "empty_upload",
                              "output_missing", "send"}
                  => status[r] = 500

\* C10: a request is found too large exactly when one of its files is
\* larger than 10 MB.
C10_CapIsPerFile ==
    (arg.fn = "transport" /\ result # << >>) =>
        (result[1].too_large
            <=> \E i \in 1..Len(arg.input.sizes) :
                   arg.input.sizes[i] > 10 * 1024 * 1024)

\* C11: on the success path the deletion of the request's files starts only
\* when the response has been sent completely: while the attachment is
\* still being streamed the cleanup thread has removed nothing and the file
\* being sent exists.
C11_DeletionAfterResponseSent ==
    \A r \in Requests :
        pc[r] = "streaming"
            => /\ tpc[r] = "sleeping"
               /\ wrote[r] \subseteq DOMAIN fs

\* C12: when a request has failed with an exception and its error response
\* is returned, every file it staged and every output file its adapter
\* wrote has been deleted.
C12_NothingLeftAfterFailure ==
    \A r \in Requests :
        (pc[r] = "done" /\ status[r] = 500)
            => wrote[r] \cap DOMAIN fs = {}

\* C13: a file that the other cleanup path removed first is no error to
\* either path, and each path goes on to the end of what it was to delete:
\* a janitor sweep ends only when both folders have been gone through, and
\* a request's cleanup only when its list is exhausted.
C13_RacesAreHarmless ==
    [][/\ (jpc # "sleep" /\ jpc' = "sleep")
              => (jpc = "converted" /\ jentries = {})
       /\ \A r \in Requests :
             /\ (tpc[r] = "running" /\ tpc'[r] = "done") => thread_list'[r] = << >>
             /\ (pc[r] = "cleanup" /\ pc'[r] = "done") => cleanup_list[r] = << >>]_vars

\* C14: whatever happens at one entry, when a janitor cycle ends no entry
\* of either folder is left whose age exceeds 3600 s.
C14_SweepDeletesEveryExpiredEntry ==
    [][(jpc # "sleep" /\ jpc' = "sleep")
          => \A p \in DOMAIN fs' : ~(fs'[p].age > 3600)]_vars

\* C18: the janitor never deletes a staged input or an output of a request
\* that is in flight: until the response is handed over, the files in the
\* request's lists exist.
C18_InFlightFilesKept ==
    \A r \in Requests :
        pc[r] \in {"loop", "adapter", "converting", "respond"}
            => SeqToSet(uploaded_files[r]) \cup SeqToSet(converted_files[r])
                   \subseteq DOMAIN fs
\* C16: once merge_pdfs has run over inputs of which one is missing,
\* unreadable or without pages, it has failed naming the first such input
\* and holding no pages, no merged output of the request is on disk, and the
\* request is on the error path, which answers 500.
C16_MergeAllOrNothing ==
    \A r \in Requests :
        (route[r] = "merge-pdf" /\ adapter_result[r] # "none" /\ arg # << >>) =>
            LET Bad(d) == ~d.exists \/ ~d.readable \/ Len(d.pages) = 0
                bad == {i \in 1..Len(arg) : Bad(arg[i])}
            IN  bad # {} =>
                    /\ ~result[1].ok
                    /\ result[1].pages = << >>
                    /\ result[1].failed \in bad
                    /\ \A i \in bad : result[1].failed <= i
                    /\ adapter_result[r] = "raised"
                    /\ \A p \in wrote[r] : p.dir # "converted"
                    /\ pc[r] \in {"except", "cleanup", "done"}
                    /\ pc[r] = "done" => status[r] = 500

\* a merge whose second input has no pages, after a good first one, has
\* been answered 500
C16_Witness ==
    \E r \in Requests :
        /\ route[r] = "merge-pdf"
        /\ pc[r] = "done"
        /\ status[r] = 500
        /\ arg # << >>
        /\ Len(arg) = 2
        /\ arg[1].exists /\ arg[1].readable /\ Len(arg[1].pages) >= 1
        /\ arg[2].exists /\ arg[2].readable /\ Len(arg[2].pages) = 0
        /\ result[1].failed = 2
\* C15: the paths two requests have staged or written are never the same, and
\* a step that removes or rewrites a file a request has staged or written
\* is a step of that request, of its handler or of its cleanup thread.
C15_PathsNeverShared ==
    [][/\ \A r1, r2 \in Requests :
             r1 # r2 =>
                 /\ wrote'[r1] \cap wrote'[r2] = {}
                 /\ outpath'[r1] # NoPath => outpath'[r1] # outpath'[r2]
       /\ \A p \in DOMAIN fs :
             (p \notin DOMAIN fs' \/ fs'[p] # fs[p]) =>
                 \A q \in Requests :
                     p \in wrote[q] =>
                         <<pc[q], tpc[q], cleanup_list[q], thread_list[q]>>
                             # <<pc'[q], tpc'[q], cleanup_list'[q], thread_list'[q]>>
      ]_vars

\* a request that staged its file after another did has been answered and
\* cleaned up, while the other, converted, still has all its files
C15_Witness ==
    \E r1, r2 \in Requests :
        /\ r1 # r2
        /\ pc[r1] = "done" /\ status[r1] = 200 /\ tpc[r1] = "done"
        /\ wrote[r1] # {} /\ wrote[r1] \cap DOMAIN fs = {}
        /\ pc[r2] = "respond"
        /\ Cardinality(wrote[r2]) = 2 /\ wrote[r2] \subseteq DOMAIN fs
        /\ \A p1 \in wrote[r1], p2 \in wrote[r2] : p2.id < p1.id

\* C17: the file the word-to-pdf adapter returned is in the output directory,
\* bears the id of this request's staged input and the PDF suffix in some
\* case, and was written by this request's conversion, not by another's.
C17_OutputIsOwn ==
    \A r \in Requests :
        (route[r] = "word-to-pdf" /\ converted_files[r] # << >>) =>
            LET found == converted_files[r][1]
            IN  /\ found.dir = "converted"
                /\ found.id = uploaded_files[r][1].id
                /\ Lower(found.ext) = "pdf"
                /\ found \in wrote[r]
                /\ \A q \in Requests \ {r} :
                      /\ found \notin wrote[q]
                      /\ \A p \in SeqToSet(uploaded_files[q]) : found.id # p.id

\* two word-to-pdf requests both converted: one output was found by the
\* fallback glob, the other request's output is on disk beside it
C17_Witness ==
    \E r1, r2 \in Requests :
        /\ r1 # r2
        /\ route[r1] = "word-to-pdf" /\ route[r2] = "word-to-pdf"
        /\ pc[r1] = "respond" /\ pc[r2] = "respond"
        /\ converted_files[r1] # << >> /\ converted_files[r2] # << >>
        /\ converted_files[r1][1].ext = "PDF"
        /\ converted_files[r2][1].ext = "pdf"
        /\ Exists(converted_files[r1][1]) /\ Exists(converted_files[r2][1])
====
